---- MODULE Spec2Model ----
(***************************************************************************)
(* A model of the ordered map TSMap<K,V> of src/src/index.ts.              *)
(*                                                                         *)
(* A TSMap object is a record [_keys, _values, length]: the two parallel   *)
(* arrays and the public length field.  JavaScript arrays are modelled as  *)
(* TLA+ sequences; the helpers below keep JavaScript's 0-based indices, so *)
(* the method bodies read like the source.  Every method is an operator    *)
(* from the object (and the arguments) to the object after the call and    *)
(* the value returned.                                                     *)
(***************************************************************************)
EXTENDS Integers, Sequences, FiniteSets, TLC

\* Keys are the numbers 1..MaxKey, scalar values the numbers 1..MaxVal.
MaxKey == 3
MaxVal == 2
\* The keys of the specification of sortedSet alone are 1..MaxSortedKey.
MaxSortedKey == 5
\* No inserting call is made on a map one of whose arrays already holds
\* MaxLen elements.
MaxLen == 5
MaxMixedLen == 6
MaxJsonLen == 2
MaxPath == 3
\* The longest recorded sequence of calls (specification SpecSet).
MaxCalls == 3
\* The specification of clone: keys 1..MaxHeapKey, at most MaxMaps TSMap
\* objects and MaxArrays arrays.
MaxHeapKey == 2
MaxMaps == 3
MaxArrays == 1

(***************************************************************************)
(* JavaScript values.  Every value is a record of the same shape, so that  *)
(* any two values can be compared: a number, a boolean, undefined, or a    *)
(* reference to a TSMap object or to an array (val is then its address).   *)
(***************************************************************************)
Num(n) == [type |-> "number", val |-> n]
Ref(a) == [type |-> "TSMap", val |-> a]
ArrayRef(a) == [type |-> "Array", val |-> a]
undefined == [type |-> "undefined", val |-> 0]
false == [type |-> "boolean", val |-> 0]
true == [type |-> "boolean", val |-> 1]

Keys == 1..MaxKey
SortedKeys == 1..MaxSortedKey
HeapKeys == 1..MaxHeapKey
Values == {Num(n) : n \in 1..MaxVal}

\* What a filter callback may return: false, true, or a falsy value that is
\* not false (0).
CallbackResults == {false, true, Num(0)}

\* A callback that does not touch the map is its result for each entry it is
\* called with, and the entry is identified by its key: the callbacks to run
\* on an array of keys.
Callbacks(arr) == [{arr[i] : i \in 1..Len(arr)} -> CallbackResults]

\* An optional number argument: <<>> when the argument is not passed.
NotPassed == <<>>
Passed(n) == <<n>>

\* The address of the one map of the single-object specifications.
ThisAddr == 1

(***************************************************************************)
(* Array.prototype helpers, 0-based as in JavaScript.                      *)
(***************************************************************************)
\* arr.indexOf(x): the first index holding x, or -1.
indexOf(arr, x) ==
    IF \E i \in 1..Len(arr) : arr[i] = x
    THEN (CHOOSE i \in 1..Len(arr) :
              arr[i] = x /\ \A j \in 1..(i - 1) : arr[j] # x) - 1
    ELSE -1

push(arr, x) == Append(arr, x)

\* arr.splice(start, deleteCount, ...items): the array afterwards.
splice(arr, start, deleteCount, items) ==
    LET len == Len(arr)
        s == IF start < 0
             THEN (IF len + start < 0 THEN 0 ELSE len + start)
             ELSE (IF start > len THEN len ELSE start)
        d == IF deleteCount < 0 THEN 0
             ELSE IF deleteCount > len - s THEN len - s ELSE deleteCount
    IN SubSeq(arr, 1, s) \o items \o SubSeq(arr, s + d + 1, len)

\* i is an index of arr (arr[i] is not undefined).
inRange(arr, i) == i >= 0 /\ i < Len(arr)

(***************************************************************************)
(* TSMap                                                                   *)
(***************************************************************************)
\* The fields a fresh object gets from the constructor, before inputMap.
EmptyMap == [_keys |-> <<>>, _values |-> <<>>, length |-> 0]

TSMap_keys(t) == t._keys

TSMap_values(t) == t._values

TSMap_size(t) == t.length

TSMap_has(t, key) == indexOf(t._keys, key) > -1

TSMap_get(t, key) ==
    LET i == indexOf(t._keys, key)
    IN IF i > -1
       THEN (IF inRange(t._values, i) THEN t._values[i + 1] ELSE undefined)
       ELSE undefined

\* A plausible slip: length is not refreshed after the push.
TSMap_set_staleLength(t, key, value) ==
    LET i == indexOf(t._keys, key)
    IN IF i > -1
       THEN [t |-> [t EXCEPT !._values[i + 1] = value], ret |-> Ref(ThisAddr)]
       ELSE [t |-> [t EXCEPT !._keys = push(@, key),
                             !._values = push(@, value)],
             ret |-> Ref(ThisAddr)]

\* A plausible slip: a new key is put in front (unshift for push).
TSMap_set_unshift(t, key, value) ==
    LET i == indexOf(t._keys, key)
    IN IF i > -1
       THEN [t |-> [t EXCEPT !._values[i + 1] = value], ret |-> Ref(ThisAddr)]
       ELSE LET ks == <<key>> \o t._keys
                vs == <<value>> \o t._values
            IN [t |-> [_keys |-> ks, _values |-> vs, length |-> Len(vs)],
                ret |-> Ref(ThisAddr)]

\* A plausible slip: an existing key is removed and entered again at the end.
TSMap_set_reinsert(t, key, value) ==
    LET i == indexOf(t._keys, key)
        ks == push(IF i > -1 THEN splice(t._keys, i, 1, <<>>) ELSE t._keys, key)
        vs == push(IF i > -1 THEN splice(t._values, i, 1, <<>>) ELSE t._values,
                   value)
    IN [t |-> [_keys |-> ks, _values |-> vs, length |-> Len(vs)],
        ret |-> Ref(ThisAddr)]

TSMap_set(t, key, value) ==
    LET i == indexOf(t._keys, key)
    IN IF i > -1
       THEN [t |-> [t EXCEPT !._values[i + 1] = value], ret |-> Ref(ThisAddr)]
       ELSE LET ks == push(t._keys, key)
                vs == push(t._values, value)
            IN [t |-> [_keys |-> ks, _values |-> vs, length |-> Len(vs)],
                ret |-> Ref(ThisAddr)]

TSMap_clear(t) ==
    [t |-> [_keys |-> <<>>, _values |-> <<>>, length |-> 0],
     ret |-> Ref(ThisAddr)]

\* A plausible slip: the test is i > 0, which misses the first key.
TSMap_delete_skipFirst(t, key) ==
    LET i == indexOf(t._keys, key)
    IN IF i > 0
       THEN LET ks == splice(t._keys, i, 1, <<>>)
                vs == splice(t._values, i, 1, <<>>)
            IN [t |-> [_keys |-> ks, _values |-> vs, length |-> Len(ks)],
                ret |-> true]
       ELSE [t |-> t, ret |-> false]

TSMap_delete(t, key) ==
    LET i == indexOf(t._keys, key)
    IN IF i > -1
       THEN LET ks == splice(t._keys, i, 1, <<>>)
                vs == splice(t._values, i, 1, <<>>)
            IN [t |-> [_keys |-> ks, _values |-> vs, length |-> Len(ks)],
                ret |-> true]
       ELSE [t |-> t, ret |-> false]


(***************************************************************************)
(* sortedSet.  key == this._keys[i] and the two orderings, with keys[i]    *)
(* undefined (every comparison false) when i is not an index of the array. *)
(***************************************************************************)
keyEq(key, arr, i) == inRange(arr, i) /\ key = arr[i + 1]

keyGt(key, arr, i) == inRange(arr, i) /\ key > arr[i + 1]

keyLt(key, arr, i) == inRange(arr, i) /\ key < arr[i + 1]

\* length == 0: the pair is pushed; length is left as it is.
sortedSet_empty(t, key, value) ==
    [t EXCEPT !._keys = push(@, key), !._values = push(@, value)]

\* key == this._keys[at], at being start or end: only _values is spliced.
sortedSet_match(t, value, at) ==
    [t EXCEPT !._values = splice(@, at, 0, <<value>>)]

\* A plausible slip: the key is spliced in at end, before the last key.
sortedSet_afterEnd_atEnd(t, key, value, end) ==
    [t EXCEPT !._keys = splice(@, end, 0, <<key>>),
              !._values = splice(@, end, 0, <<value>>)]

\* key > this._keys[end]: both arrays are spliced at end + 1.
sortedSet_afterEnd(t, key, value, end) ==
    [t EXCEPT !._keys = splice(@, end + 1, 0, <<key>>),
              !._values = splice(@, end + 1, 0, <<value>>)]

\* A plausible slip: only _values is spliced, as on a boundary match.
sortedSet_beforeStart_valuesOnly(t, key, value, start) ==
    [t EXCEPT !._values = splice(@, start, 0, <<value>>)]

\* key < this._keys[start]: both arrays are spliced at start.
sortedSet_beforeStart(t, key, value, start) ==
    [t EXCEPT !._values = splice(@, start, 0, <<value>>),
              !._keys = splice(@, start, 0, <<key>>)]

\* The index range [start, end] one invocation of sortedSet works on.
Range(start, end) == [start |-> start, end |-> end]

\* The result (the object afterwards, the value returned) with calls, the
\* ranges of the successive invocations: this one and those it recurses into.
RECURSIVE TSMap_sortedSet(_, _, _, _, _)

\* A plausible slip: the recursion into the right half leaves endVal out, so
\* that end is length - 1 again.
TSMap_sortedSet_dropEnd(t, key, value, startVal, endVal) ==
    LET length == Len(t._keys)
        start == IF startVal = NotPassed \/ startVal[1] = 0 THEN 0 ELSE startVal[1]
        end == IF endVal # NotPassed THEN endVal[1] ELSE length - 1
        m == start + ((end - start) \div 2)
        done(obj) == [t |-> obj, ret |-> Ref(ThisAddr),
                      calls |-> <<Range(start, end)>>]
        into(r) == [r EXCEPT !.calls = <<Range(start, end)>> \o @]
    IN IF length = 0 THEN done(sortedSet_empty(t, key, value))
       ELSE IF keyEq(key, t._keys, start) THEN done(sortedSet_match(t, value, start))
       ELSE IF keyEq(key, t._keys, end) THEN done(sortedSet_match(t, value, end))
       ELSE IF keyGt(key, t._keys, end) THEN done(sortedSet_afterEnd(t, key, value, end))
       ELSE IF keyLt(key, t._keys, start)
            THEN done(sortedSet_beforeStart(t, key, value, start))
       ELSE IF start >= end THEN done(t)
       ELSE IF keyLt(key, t._keys, m)
            THEN into(TSMap_sortedSet(t, key, value, Passed(start), Passed(m - 1)))
       ELSE IF keyGt(key, t._keys, m)
            THEN into(TSMap_sortedSet(t, key, value, Passed(m + 1), NotPassed))
       ELSE done(t)

TSMap_sortedSet(t, key, value, startVal, endVal) ==
    LET length == Len(t._keys)
        start == IF startVal = NotPassed \/ startVal[1] = 0 THEN 0 ELSE startVal[1]
        end == IF endVal # NotPassed THEN endVal[1] ELSE length - 1
        m == start + ((end - start) \div 2)
        done(obj) == [t |-> obj, ret |-> Ref(ThisAddr),
                      calls |-> <<Range(start, end)>>]
        into(r) == [r EXCEPT !.calls = <<Range(start, end)>> \o @]
    IN IF length = 0 THEN done(sortedSet_empty(t, key, value))
       ELSE IF keyEq(key, t._keys, start) THEN done(sortedSet_match(t, value, start))
       ELSE IF keyEq(key, t._keys, end) THEN done(sortedSet_match(t, value, end))
       ELSE IF keyGt(key, t._keys, end) THEN done(sortedSet_afterEnd(t, key, value, end))
       ELSE IF keyLt(key, t._keys, start)
            THEN done(sortedSet_beforeStart(t, key, value, start))
       ELSE IF start >= end THEN done(t)
       ELSE IF keyLt(key, t._keys, m)
            THEN into(TSMap_sortedSet(t, key, value, Passed(start), Passed(m - 1)))
       ELSE IF keyGt(key, t._keys, m)
            THEN into(TSMap_sortedSet(t, key, value, Passed(m + 1), Passed(end)))
       ELSE done(t)

(***************************************************************************)
(* filter.  forEach over the copy [...t._keys]; every invocation of the    *)
(* callback is recorded with its three arguments.                          *)
(***************************************************************************)
Invocation(value, key, index) == [value |-> value, key |-> key, index |-> index]

\* A plausible slip (the loop of the earlier class): forEach over the live
\* _keys, which skips the index that a delete has just moved an entry into.
RECURSIVE filter_forEachLive(_, _, _, _)
filter_forEachLive(t, i, callbackfn, invoked) ==
    IF ~inRange(t._keys, i) THEN [t |-> t, ret |-> Ref(ThisAddr), invoked |-> invoked]
    ELSE LET v == t._keys[i + 1]
             inv == Append(invoked, Invocation(TSMap_get(t, v), v, i))
         IN filter_forEachLive(
                IF callbackfn[v] = false THEN TSMap_delete(t, v).t ELSE t,
                i + 1, callbackfn, inv)

TSMap_filter_live(t, callbackfn) == filter_forEachLive(t, 0, callbackfn, <<>>)

\* The iterations of forEach from index i on, over the copy snapshot.
RECURSIVE filter_forEach(_, _, _, _, _)
filter_forEach(t, snapshot, i, callbackfn, invoked) ==
    IF ~inRange(snapshot, i) THEN [t |-> t, ret |-> Ref(ThisAddr), invoked |-> invoked]
    ELSE LET v == snapshot[i + 1]
             inv == Append(invoked, Invocation(TSMap_get(t, v), v, i))
         IN filter_forEach(
                IF callbackfn[v] = false THEN TSMap_delete(t, v).t ELSE t,
                snapshot, i + 1, callbackfn, inv)

TSMap_filter(t, callbackfn) == filter_forEach(t, t._keys, 0, callbackfn, <<>>)

(***************************************************************************)
(* entries, the constructor and clone.  A value that is a reference is     *)
(* copied as the reference it is.                                          *)
(***************************************************************************)
TSMap_entries(t) ==
    [i \in 1..Len(TSMap_keys(t)) |->
        <<TSMap_keys(t)[i], TSMap_get(t, TSMap_keys(t)[i])>>]

\* inputMap.forEach(v => t.set(v[0], v[1])) from entry i on.
RECURSIVE constructor_forEach(_, _, _)
constructor_forEach(t, inputMap, i) ==
    IF i > Len(inputMap) THEN t
    ELSE constructor_forEach(TSMap_set(t, inputMap[i][1], inputMap[i][2]).t,
                             inputMap, i + 1)

TSMap_constructor(inputMap) == constructor_forEach(EmptyMap, inputMap, 1)

TSMap_clone(t) == TSMap_constructor(TSMap_entries(t))

(***************************************************************************)
(* The earlier class tsMap: _items holds the entries as [key, value] pairs *)
(* next to _keys and _values.  Its set and clear return nothing.           *)
(***************************************************************************)
tsMap_Empty == [_items |-> <<>>, _keys |-> <<>>, _values |-> <<>>, length |-> 0]

tsMap_entries(o) == o._items

tsMap_keys(o) == o._keys

tsMap_values(o) == o._values

tsMap_size(o) == Len(o._items)

tsMap_has(o, key) == indexOf(o._keys, key) > -1

tsMap_get(o, key) ==
    LET i == indexOf(o._keys, key)
    IN IF i > -1 THEN o._values[i + 1] ELSE undefined

\* A plausible slip: an existing key is overwritten in _values alone.
tsMap_set_staleItems(o, key, value) ==
    LET i == indexOf(o._keys, key)
        n == IF i > -1
             THEN [o EXCEPT !._values[i + 1] = value]
             ELSE [o EXCEPT !._items = push(@, <<key, value>>),
                            !._keys = push(@, key),
                            !._values = push(@, value)]
    IN [t |-> [n EXCEPT !.length = tsMap_size(n)], ret |-> undefined]

tsMap_set(o, key, value) ==
    LET i == indexOf(o._keys, key)
        n == IF i > -1
             THEN [o EXCEPT !._items[i + 1][2] = value,
                            !._values[i + 1] = value]
             ELSE [o EXCEPT !._items = push(@, <<key, value>>),
                            !._keys = push(@, key),
                            !._values = push(@, value)]
    IN [t |-> [n EXCEPT !.length = tsMap_size(n)], ret |-> undefined]

tsMap_clear(o) ==
    LET n == [o EXCEPT !._keys = <<>>, !._values = <<>>, !._items = <<>>]
    IN [t |-> [n EXCEPT !.length = tsMap_size(n)], ret |-> undefined]

tsMap_delete(o, key) ==
    LET i == indexOf(o._keys, key)
        n == [o EXCEPT !._keys = splice(@, i, 1, <<>>),
                       !._values = splice(@, i, 1, <<>>),
                       !._items = splice(@, i, 1, <<>>)]
    IN IF i > -1
       THEN [t |-> [n EXCEPT !.length = tsMap_size(n)], ret |-> true]
       ELSE [t |-> o, ret |-> false]

\* callbackfn(...) == false: the loose comparison, which 0 passes as well.
looseEqualsFalse(r) == r = false \/ r = Num(0)

\* t._keys.forEach over the live array: the indices 0 .. len - 1, len being
\* the length when forEach was called, and an index is visited only if the
\* array, as the deletions so far have left it, still has it.
RECURSIVE tsMap_filter_forEach(_, _, _, _, _)
tsMap_filter_forEach(o, len, i, callbackfn, invoked) ==
    IF i >= len THEN [t |-> o, ret |-> Ref(ThisAddr), invoked |-> invoked]
    ELSE IF ~inRange(o._keys, i)
         THEN tsMap_filter_forEach(o, len, i + 1, callbackfn, invoked)
    ELSE LET v == o._keys[i + 1]
             seen == Append(invoked, Invocation(tsMap_get(o, v), v, i))
         IN IF looseEqualsFalse(callbackfn[v])
            THEN tsMap_filter_forEach(tsMap_delete(o, v).t, len, i + 1,
                                      callbackfn, seen)
            ELSE tsMap_filter_forEach(o, len, i + 1, callbackfn, seen)

tsMap_filter(o, callbackfn) ==
    tsMap_filter_forEach(o, Len(o._keys), 0, callbackfn, <<>>)

\* A callback of the type tsMap.filter declares: it answers with a Boolean.
BooleanCallbacks(arr) == [{arr[i] : i \in 1..Len(arr)} -> {false, true}]

(***************************************************************************)
(* JSON.  Where fromJSON, toJSON and deepGet are studied the keys are      *)
(* strings and a value carries what it refers to: null, a plain object     *)
(* (its properties as <<name, value>> pairs in the order Object.keys       *)
(* lists them), an array (its elements) or a TSMap instance (its fields).  *)
(***************************************************************************)
null == [type |-> "null", val |-> 0]

Obj(props) == [type |-> "object", val |-> props]

Arr(items) == [type |-> "array", val |-> items]

Inst(m) == [type |-> "instance", val |-> m]

\* The outcome of a call that threw a TypeError.
TypeError == [type |-> "TypeError", val |-> 0]

\* value === undefined || value === null
Nullish(value) == value = undefined \/ value = null

\* typeof value === 'object'
typeofObject(value) == value.type \in {"null", "object", "array", "instance"}

\* The property names that are array indices, "0" first.
IndexNames == <<"0", "1", "2">>

\* The array index a property name stands for, -1 if it stands for none.
ArrayIndex(name) ==
    IF \E i \in 1..Len(IndexNames) : IndexNames[i] = name
    THEN (CHOOSE i \in 1..Len(IndexNames) : IndexNames[i] = name) - 1
    ELSE -1

\* String(k), k a string.
String(k) == k

\* Object.keys(o): the indices of an array; of a plain object the names
\* that are array indices first, ascending, then the others in the order in
\* which they were created, which is the order its properties are kept in.
Object_keys(o) ==
    IF o.type = "array"
    THEN [i \in 1..Len(o.val) |-> IndexNames[i]]
    ELSE [i \in 1..Len(o.val) |-> o.val[i][1]]

\* obj[name], which throws on undefined and null and is undefined on a
\* number or a boolean.
propertyAccess(obj, name) ==
    IF Nullish(obj) THEN TypeError
    ELSE IF obj.type = "array"
         THEN IF name = "length" THEN Num(Len(obj.val))
              ELSE IF inRange(obj.val, ArrayIndex(name))
                   THEN obj.val[ArrayIndex(name) + 1]
                   ELSE undefined
    ELSE IF obj.type = "object"
         THEN IF \E i \in 1..Len(obj.val) : obj.val[i][1] = name
              THEN obj.val[CHOOSE i \in 1..Len(obj.val) : obj.val[i][1] = name][2]
              ELSE undefined
    ELSE undefined

\* Where a new property name goes in the enumeration order of props: an index
\* name before the first name that is no index or is a greater index, any
\* other name at the end.
propertySlot(props, name) ==
    IF ArrayIndex(name) = -1 THEN Len(props)
    ELSE Cardinality({i \in 1..Len(props) :
                         /\ ArrayIndex(props[i][1]) # -1
                         /\ ArrayIndex(props[i][1]) < ArrayIndex(name)})

\* A plausible slip: a new property always goes to the end.
propertyAssign_append(obj, name, value) ==
    IF \E i \in 1..Len(obj.val) : obj.val[i][1] = name
    THEN Obj([obj.val EXCEPT
                 ![CHOOSE i \in 1..Len(obj.val) : obj.val[i][1] = name][2] = value])
    ELSE Obj(push(obj.val, <<name, value>>))

\* obj[name] = value on a plain object.
propertyAssign(obj, name, value) ==
    IF \E i \in 1..Len(obj.val) : obj.val[i][1] = name
    THEN Obj([obj.val EXCEPT
                 ![CHOOSE i \in 1..Len(obj.val) : obj.val[i][1] = name][2] = value])
    ELSE Obj(splice(obj.val, propertySlot(obj.val, name), 0, <<<<name, value>>>>))

RECURSIVE TSMap_toJSON(_), getValue(_), toJSON_forEach(_, _, _)

\* getValue of toJSON.
getValue(value) ==
    IF value.type = "instance" THEN TSMap_toJSON(value.val)
    ELSE IF value.type = "array"
         THEN Arr([i \in 1..Len(value.val) |-> getValue(value.val[i])])
    ELSE value

\* t.keys().forEach(k => obj[String(k)] = getValue(t.get(k))) from key i on.
toJSON_forEach(t, i, obj) ==
    IF i >= Len(TSMap_keys(t)) THEN obj
    ELSE LET k == TSMap_keys(t)[i + 1]
         IN toJSON_forEach(t, i + 1,
                propertyAssign(obj, String(k), getValue(TSMap_get(t, k))))

TSMap_toJSON(t) == toJSON_forEach(t, 0, Obj(<<>>))

RECURSIVE TSMap_fromJSON(_, _, _), setProperty(_, _), fromJSON_forEach(_, _, _, _)

\* setProperty of fromJSON: the test for an object comes first and an array
\* passes it.
setProperty(value, convertObjs) ==
    IF value # null /\ typeofObject(value) /\ convertObjs
    THEN Inst(TSMap_fromJSON(EmptyMap, value, TRUE).t)
    ELSE IF value.type = "array" /\ convertObjs
         THEN Arr([i \in 1..Len(value.val) |->
                      setProperty(value.val[i], convertObjs)])
    ELSE value

\* Object.keys(jsonObject).forEach(...) from property i on.
fromJSON_forEach(t, jsonObject, convertObjs, i) ==
    IF i >= Len(Object_keys(jsonObject)) THEN t
    ELSE LET property == Object_keys(jsonObject)[i + 1]
         IN fromJSON_forEach(
                TSMap_set(t, property,
                    setProperty(propertyAccess(jsonObject, property),
                                convertObjs)).t,
                jsonObject, convertObjs, i + 1)

TSMap_fromJSON(t, jsonObject, convertObjs) ==
    [t |-> fromJSON_forEach(t, jsonObject, convertObjs, 0), ret |-> Ref(ThisAddr)]

RECURSIVE recursiveGet(_, _)

\* A plausible slip: recursiveGet without its test for undefined and null.
recursiveGet_unguarded(obj, path) ==
    IF Len(path) = 0 THEN obj
    ELSE LET next == IF obj.type = "instance"
                     THEN TSMap_get(obj.val, path[1])
                     ELSE propertyAccess(obj, path[1])
         IN IF next = TypeError THEN TypeError
            ELSE recursiveGet(next, Tail(path))

\* recursiveGet of deepGet; a TypeError thrown by obj[path[0]] ends the call.
recursiveGet(obj, path) ==
    IF Nullish(obj) THEN null
    ELSE IF Len(path) = 0 THEN obj
    ELSE LET next == IF obj.type = "instance"
                     THEN TSMap_get(obj.val, path[1])
                     ELSE propertyAccess(obj, path[1])
         IN IF next = TypeError THEN TypeError
            ELSE recursiveGet(next, Tail(path))

TSMap_deepGet(t, path) ==
    IF Len(path) = 0 THEN null
    ELSE recursiveGet(TSMap_get(t, path[1]), Tail(path))

\* new TSMap() after set(entries[1][1], entries[1][2]), set(...), ...
RECURSIVE FromEntries(_)
FromEntries(entries) ==
    IF entries = <<>> THEN EmptyMap
    ELSE TSMap_set(FromEntries(SubSeq(entries, 1, Len(entries) - 1)),
                   entries[Len(entries)][1], entries[Len(entries)][2]).t

\* The object literal with the properties props, in the order written.
RECURSIVE Literal(_)
Literal(props) ==
    IF props = <<>> THEN Obj(<<>>)
    ELSE propertyAssign(Literal(SubSeq(props, 1, Len(props) - 1)),
                        props[Len(props)][1], props[Len(props)][2])

\* The lists of at most MaxJsonLen entries with keys of K, no key twice, and
\* values of V.
EntryLists(K, V) ==
    UNION {{e \in [1..n -> K \X V] :
               \A i, j \in 1..n : e[i][1] = e[j][1] => i = j} : n \in 0..MaxJsonLen}

JsonKeys == {"a", "b", "0", "1"}

Scalars == {Num(1), Num(2), true, null}

\* Nested maps: one entry; two entries the second of which has an index name;
\* a map within a map.
NestedMaps ==
    {FromEntries(<<<<"b", Num(2)>>>>),
     FromEntries(<<<<"a", Num(1)>>, <<"0", null>>>>),
     FromEntries(<<<<"a", Inst(FromEntries(<<<<"b", true>>>>))>>>>)}

\* The values of a map that toJSON and fromJSON carry there and back.
MapValues == Scalars \cup {Inst(m) : m \in NestedMaps}

\* The values of the properties of an object given to fromJSON.
JsonValues ==
    Scalars \cup
    {Literal(<<>>), Literal(<<<<"a", Num(1)>>>>),
     Literal(<<<<"b", Arr(<<Num(1)>>)>>>>),
     Arr(<<>>), Arr(<<Num(1)>>), Arr(<<Literal(<<<<"a", Num(1)>>>>), Num(2)>>)}

\* The keys and values of a map deepGet is called on, and the elements of
\* its paths.
DeepKeys == {"a", "0"}

DeepValues ==
    {Num(1), null, undefined,
     Literal(<<<<"a", Num(1)>>>>),
     Literal(<<<<"a", Literal(<<<<"0", Num(2)>>, <<"b", null>>>>)>>>>),
     Arr(<<Num(1), Literal(<<<<"a", Num(2)>>>>)>>),
     Inst(FromEntries(<<<<"a", Num(1)>>>>)),
     Inst(FromEntries(<<<<"a", Literal(<<<<"b", Num(2)>>>>)>>>>)),
     Inst(FromEntries(<<<<"0", Inst(FromEntries(<<<<"a", Num(2)>>>>))>>>>))}

PathKeys == {"a", "0", "b"}

Paths == UNION {[1..n -> PathKeys] : n \in 0..MaxPath}

(***************************************************************************)
(* The state: one TSMap object t, the last call made on it (its operation, *)
(* arguments and returned value) and the object as it was before that call.*)
(***************************************************************************)
VARIABLES t, call, pre, trace

(***************************************************************************)
(* The state of the specification of clone: a heap.  maps[a] is the TSMap  *)
(* object at address a and arrays[a] the array at address a; a value that  *)
(* is a reference names its object by address, so two maps holding the     *)
(* same reference share the object.  The map x is at address 1; c is the   *)
(* address of its clone (0 before clone is called); via is the handle, "x" *)
(* or "c", that the last mutation went through.                            *)
(***************************************************************************)
VARIABLES maps, arrays, c, via

(***************************************************************************)
(* An object old of the earlier class tsMap, the last call made on it and  *)
(* the object as it was before that call.                                  *)
(***************************************************************************)
VARIABLES old, oldCall, oldPre

(***************************************************************************)
(* The call of fromJSON, toJSON or deepGet under study: its name, the      *)
(* value it was given and the value it gave back.                          *)
(***************************************************************************)
VARIABLE io

mapVars == <<t, call, pre, trace>>

heapVars == <<maps, arrays, c, via>>

oldVars == <<old, oldCall, oldPre>>

vars == <<t, call, pre, trace, maps, arrays, c, via, old, oldCall, oldPre, io>>

\* The callback field of a call that takes none.
NoCallback == [k \in {} |-> undefined]

Call(op, key, value, ret, callbackfn, invoked) ==
    [op |-> op, key |-> key, value |-> value, ret |-> ret,
     callbackfn |-> callbackfn, invoked |-> invoked]

\* No call is on record.
NoCall == Call("none", 0, undefined, undefined, NoCallback, <<>>)

\* No call of fromJSON, toJSON or deepGet has been made.
NoIo == [op |-> "none"]

Init ==
    /\ t = EmptyMap
    /\ call = NoCall
    /\ pre = EmptyMap
    /\ trace = <<>>
    /\ maps = <<EmptyMap>>
    /\ arrays = <<>>
    /\ c = 0
    /\ via = "none"
    /\ old = tsMap_Empty
    /\ oldCall = NoCall
    /\ oldPre = tsMap_Empty
    /\ io = NoIo

Idle == call = NoCall

Room == Len(t._keys) < MaxLen /\ Len(t._values) < MaxLen

\* A call with result res (the object afterwards and the value returned) is
\* made and put on record with the object as it was.
Do(op, key, value, callbackfn, res, invoked) ==
    /\ Idle
    /\ pre' = t
    /\ t' = res.t
    /\ call' = Call(op, key, value, res.ret, callbackfn, invoked)
    /\ UNCHANGED <<heapVars, oldVars, io>>

\* The record of the last call is dropped; the object stays as it is.
Forget ==
    /\ ~Idle
    /\ call' = NoCall
    /\ pre' = EmptyMap
    /\ UNCHANGED <<t, trace>>
    /\ UNCHANGED <<heapVars, oldVars, io>>

Set ==
    \E key \in Keys, value \in Values :
        /\ Room
        /\ Do("set", key, value, NoCallback, TSMap_set(t, key, value), <<>>)
        /\ UNCHANGED trace

SortedSetOf(K) ==
    \E key \in K, value \in Values :
        /\ Room
        /\ Do("sortedSet", key, value, NoCallback,
              TSMap_sortedSet(t, key, value, NotPassed, NotPassed),
              TSMap_sortedSet(t, key, value, NotPassed, NotPassed).calls)
        /\ UNCHANGED trace

SortedSet == SortedSetOf(Keys)

SortedSetWide == SortedSetOf(SortedKeys)

Delete ==
    \E key \in Keys :
        /\ Do("delete", key, undefined, NoCallback, TSMap_delete(t, key), <<>>)
        /\ UNCHANGED trace

Clear ==
    /\ Do("clear", 0, undefined, NoCallback, TSMap_clear(t), <<>>)
    /\ UNCHANGED trace

Filter ==
    \E callbackfn \in Callbacks(t._keys) :
        LET res == TSMap_filter(t, callbackfn)
        IN /\ Do("filter", 0, undefined, callbackfn, res, res.invoked)
           /\ UNCHANGED trace

\* set, with the keys of the calls made so far recorded in trace.
SetTraced ==
    \E key \in Keys, value \in Values :
        /\ Len(trace) < MaxCalls
        /\ Do("set", key, value, NoCallback, TSMap_set(t, key, value), <<>>)
        /\ trace' = Append(trace, key)

(***************************************************************************)
(* Calls on the heap.  A handle is x or, once clone has been called, c; a  *)
(* call goes through handle h when it is made on the map h or on a value   *)
(* obtained by h.get(k).                                                   *)
(***************************************************************************)
x == ThisAddr

Handles == IF c = 0 THEN {x} ELSE {x, c}

HandleName(h) == IF h = x THEN "x" ELSE "c"

\* h.set(key, value), value a scalar.
HeapSet ==
    \E h \in Handles, key \in HeapKeys, value \in Values :
        /\ maps' = [maps EXCEPT ![h] = TSMap_set(@, key, value).t]
        /\ via' = HandleName(h)
        /\ UNCHANGED <<arrays, c>>
        /\ UNCHANGED <<mapVars, oldVars, io>>

\* h.set(key, new TSMap()).
HeapSetMap ==
    \E h \in Handles, key \in HeapKeys :
        /\ Len(maps) < MaxMaps
        /\ maps' = Append([maps EXCEPT
                              ![h] = TSMap_set(@, key, Ref(Len(maps) + 1)).t],
                          TSMap_constructor(<<>>))
        /\ via' = HandleName(h)
        /\ UNCHANGED <<arrays, c>>
        /\ UNCHANGED <<mapVars, oldVars, io>>

\* h.set(key, [value]).
HeapSetArray ==
    \E h \in Handles, key \in HeapKeys, value \in Values :
        /\ Len(arrays) < MaxArrays
        /\ arrays' = Append(arrays, <<value>>)
        /\ maps' = [maps EXCEPT
                       ![h] = TSMap_set(@, key, ArrayRef(Len(arrays) + 1)).t]
        /\ via' = HandleName(h)
        /\ UNCHANGED c
        /\ UNCHANGED <<mapVars, oldVars, io>>

\* h.delete(key).
HeapDelete ==
    \E h \in Handles, key \in HeapKeys :
        /\ maps' = [maps EXCEPT ![h] = TSMap_delete(@, key).t]
        /\ via' = HandleName(h)
        /\ UNCHANGED <<arrays, c>>
        /\ UNCHANGED <<mapVars, oldVars, io>>

\* h.clear().
HeapClear ==
    \E h \in Handles :
        /\ maps' = [maps EXCEPT ![h] = TSMap_clear(@).t]
        /\ via' = HandleName(h)
        /\ UNCHANGED <<arrays, c>>
        /\ UNCHANGED <<mapVars, oldVars, io>>

\* h.get(k).set(key, value), h.get(k) being a TSMap.
HeapNestedSet ==
    \E h \in Handles, k \in HeapKeys, key \in HeapKeys, value \in Values :
        LET v == TSMap_get(maps[h], k)
        IN /\ v.type = "TSMap"
           /\ maps' = [maps EXCEPT ![v.val] = TSMap_set(@, key, value).t]
           /\ via' = HandleName(h)
           /\ UNCHANGED <<arrays, c>>
           /\ UNCHANGED <<mapVars, oldVars, io>>

\* h.get(k).delete(key), h.get(k) being a TSMap.
HeapNestedDelete ==
    \E h \in Handles, k \in HeapKeys, key \in HeapKeys :
        LET v == TSMap_get(maps[h], k)
        IN /\ v.type = "TSMap"
           /\ maps' = [maps EXCEPT ![v.val] = TSMap_delete(@, key).t]
           /\ via' = HandleName(h)
           /\ UNCHANGED <<arrays, c>>
           /\ UNCHANGED <<mapVars, oldVars, io>>

\* h.get(k)[i] = value, h.get(k) being an array and i one of its indices.
HeapArrayWrite ==
    \E h \in Handles, k \in HeapKeys, value \in Values :
        LET v == TSMap_get(maps[h], k)
        IN /\ v.type = "Array"
           /\ \E i \in 1..Len(arrays[v.val]) :
                  arrays' = [arrays EXCEPT ![v.val][i] = value]
           /\ via' = HandleName(h)
           /\ UNCHANGED <<maps, c>>
           /\ UNCHANGED <<mapVars, oldVars, io>>

\* h.filter(callbackfn), once the clone exists.
HeapFilter ==
    \E h \in Handles :
        \E callbackfn \in BooleanCallbacks(maps[h]._keys) :
            /\ c # 0
            /\ maps' = [maps EXCEPT ![h] = TSMap_filter(@, callbackfn).t]
            /\ via' = HandleName(h)
            /\ UNCHANGED <<arrays, c>>
            /\ UNCHANGED <<mapVars, oldVars, io>>

\* A plausible slip: clone returns this.
Clone_alias ==
    /\ c = 0
    /\ c' = x
    /\ via' = "none"
    /\ UNCHANGED <<maps, arrays>>
    /\ UNCHANGED <<mapVars, oldVars, io>>

\* c = x.clone().
Clone ==
    /\ c = 0
    /\ Len(maps) < MaxMaps
    /\ c' = Len(maps) + 1
    /\ maps' = Append(maps, TSMap_clone(maps[x]))
    /\ via' = "none"
    /\ UNCHANGED arrays
    /\ UNCHANGED <<mapVars, oldVars, io>>

NextClone ==
    \/ HeapSet \/ HeapSetMap \/ HeapSetArray \/ HeapDelete \/ HeapClear
    \/ HeapNestedSet \/ HeapNestedDelete \/ HeapArrayWrite \/ Clone

SpecClone == Init /\ [][NextClone]_vars

\* The map x holds scalars only: set, delete and clear on x, then clone, then
\* set, delete, clear and filter through either handle.
NextCloneFlat == HeapSet \/ HeapDelete \/ HeapClear \/ HeapFilter \/ Clone

SpecCloneFlat == Init /\ [][NextCloneFlat]_vars

\* set, delete and clear.
Next == Set \/ Delete \/ Clear \/ Forget

Spec == Init /\ [][Next]_vars

\* set, delete, clear and filter.
NextFilter == Set \/ Delete \/ Clear \/ Filter \/ Forget

SpecFilter == Init /\ [][NextFilter]_vars

\* Every mutating method.
NextAll == Set \/ SortedSet \/ Delete \/ Clear \/ Filter \/ Forget

SpecAll == Init /\ [][NextAll]_vars

\* sortedSet alone.
(***************************************************************************)
(* Calls on the object old of the earlier class.                           *)
(***************************************************************************)
OldIdle == oldCall = NoCall

OldRoom == Len(old._keys) < MaxLen

OldDo(op, key, value, callbackfn, res, invoked) ==
    /\ OldIdle
    /\ oldPre' = old
    /\ old' = res.t
    /\ oldCall' = Call(op, key, value, res.ret, callbackfn, invoked)

OldForget ==
    /\ ~OldIdle
    /\ oldCall' = NoCall
    /\ oldPre' = tsMap_Empty
    /\ UNCHANGED <<old, mapVars, heapVars, io>>

OldSet ==
    \E key \in Keys, value \in Values :
        /\ OldRoom
        /\ OldDo("set", key, value, NoCallback, tsMap_set(old, key, value), <<>>)
        /\ UNCHANGED <<mapVars, heapVars, io>>

OldDelete ==
    \E key \in Keys :
        /\ OldDo("delete", key, undefined, NoCallback, tsMap_delete(old, key), <<>>)
        /\ UNCHANGED <<mapVars, heapVars, io>>

OldClear ==
    /\ OldDo("clear", 0, undefined, NoCallback, tsMap_clear(old), <<>>)
    /\ UNCHANGED <<mapVars, heapVars, io>>

OldFilter ==
    \E callbackfn \in BooleanCallbacks(old._keys) :
        /\ OldDo("filter", 0, undefined, callbackfn,
                 tsMap_filter(old, callbackfn),
                 tsMap_filter(old, callbackfn).invoked)
        /\ UNCHANGED <<mapVars, heapVars, io>>

NextOld == OldSet \/ OldDelete \/ OldClear \/ OldFilter \/ OldForget

SpecOld == Init /\ [][NextOld]_vars

(***************************************************************************)
(* The same call made on t, of the class TSMap, and on old, of the class   *)
(* tsMap.                                                                  *)
(***************************************************************************)
BothDo(op, key, value, res, oldRes) ==
    /\ Idle
    /\ pre' = t
    /\ t' = res.t
    /\ call' = Call(op, key, value, res.ret, NoCallback, <<>>)
    /\ OldDo(op, key, value, NoCallback, oldRes, <<>>)
    /\ UNCHANGED <<trace, heapVars, io>>

BothForget ==
    /\ ~Idle
    /\ call' = NoCall
    /\ pre' = EmptyMap
    /\ oldCall' = NoCall
    /\ oldPre' = tsMap_Empty
    /\ UNCHANGED <<t, old, trace, heapVars, io>>

BothSet ==
    \E key \in Keys, value \in Values :
        /\ Room
        /\ BothDo("set", key, value,
                  TSMap_set(t, key, value), tsMap_set(old, key, value))

BothDelete ==
    \E key \in Keys :
        BothDo("delete", key, undefined,
               TSMap_delete(t, key), tsMap_delete(old, key))

BothClear ==
    BothDo("clear", 0, undefined, TSMap_clear(t), tsMap_clear(old))

NextBoth == BothSet \/ BothDelete \/ BothClear \/ BothForget

SpecBoth == Init /\ [][NextBoth]_vars

(***************************************************************************)
(* fromJSON, toJSON and deepGet: one call on an input drawn from the sets  *)
(* above, put on record with what it gave back.                            *)
(***************************************************************************)
\* y = new TSMap().fromJSON(x.toJSON(), true), x built by set.
RoundTrip ==
    \E entries \in EntryLists(JsonKeys, MapValues) :
        LET this == FromEntries(entries)
            json == TSMap_toJSON(this)
        IN /\ io.op = "none"
           /\ io' = [op |-> "roundTrip", this |-> this, json |-> json,
                     out |-> TSMap_fromJSON(EmptyMap, json, TRUE).t]
           /\ UNCHANGED <<mapVars, heapVars, oldVars>>

SpecRoundTrip == Init /\ [][RoundTrip]_vars

\* new TSMap().fromJSON(jsonObject, convertObjs).
FromJSON ==
    \E props \in EntryLists(JsonKeys, JsonValues), convertObjs \in BOOLEAN :
        /\ io.op = "none"
        /\ io' = [op |-> "fromJSON", jsonObject |-> Literal(props),
                  convertObjs |-> convertObjs,
                  out |-> TSMap_fromJSON(EmptyMap, Literal(props), convertObjs).t]
        /\ UNCHANGED <<mapVars, heapVars, oldVars>>

SpecFromJSON == Init /\ [][FromJSON]_vars

\* this.deepGet(path), this built by set.
DeepGet ==
    \E entries \in EntryLists(DeepKeys, DeepValues), path \in Paths :
        /\ io.op = "none"
        /\ io' = [op |-> "deepGet", this |-> FromEntries(entries), path |-> path,
                  out |-> TSMap_deepGet(FromEntries(entries), path)]
        /\ UNCHANGED <<mapVars, heapVars, oldVars>>

SpecDeepGet == Init /\ [][DeepGet]_vars

\* set and sortedSet mixed, which reaches maps whose keys are not sorted.  The
\* value plays no part in the search of sortedSet, so one value is entered and
\* the arrays may grow to MaxMixedLen.
MixedRoom == Len(t._keys) < MaxMixedLen /\ Len(t._values) < MaxMixedLen

MixedSet ==
    \E key \in Keys :
        /\ MixedRoom
        /\ Do("set", key, Num(1), NoCallback, TSMap_set(t, key, Num(1)), <<>>)
        /\ UNCHANGED trace

MixedSortedSet ==
    \E key \in SortedKeys :
        /\ MixedRoom
        /\ Do("sortedSet", key, Num(1), NoCallback,
              TSMap_sortedSet(t, key, Num(1), NotPassed, NotPassed),
              TSMap_sortedSet(t, key, Num(1), NotPassed, NotPassed).calls)
        /\ UNCHANGED trace

NextMixed == MixedSet \/ MixedSortedSet \/ Forget

SpecMixed == Init /\ [][NextMixed]_vars

NextSorted == SortedSetWide \/ Forget

SpecSorted == Init /\ [][NextSorted]_vars

\* set alone, the calls recorded.
NextSet == SetTraced \/ Forget

SpecSet == Init /\ [][NextSet]_vars

(***************************************************************************)
(* Properties                                                              *)
(***************************************************************************)
\* No two elements of the sequence are equal.
IsDistinct(seq) == \A i, j \in 1..Len(seq) : i # j => seq[i] # seq[j]

\* The elements of seq at the indices idx, in that order.
At(seq, idx) == [j \in 1..Len(idx) |-> seq[idx[j]]]

\* The indices of the entries of keys ks that callbackfn does not answer
\* with false.
KeptIndices(ks, callbackfn) ==
    SelectSeq([i \in 1..Len(ks) |-> i], LAMBDA i : callbackfn[ks[i]] # false)

\* C1: after any sequence of set, delete and clear calls on a map created
\* empty, size() equals the length of keys() and the length of values().
C1_SizeConsistency ==
    /\ TSMap_size(t) = Len(TSMap_keys(t))
    /\ TSMap_size(t) = Len(TSMap_values(t))

\* A delete has removed an entry and left two.
C1_Witness ==
    /\ call.op = "delete"
    /\ call.ret = true
    /\ TSMap_size(t) = 2

\* C2: after every completed set, sortedSet, delete, clear or filter call the
\* key array and the value array have the same length, and length is that
\* length.
C2_ParallelLengths ==
    /\ Len(t._keys) = Len(t._values)
    /\ t.length = Len(t._keys)

\* C3: after set calls with pairwise distinct keys on a map created empty,
\* keys() is those keys in the order of the calls.
C3_OrderPreserved == IsDistinct(trace) => TSMap_keys(t) = trace

\* Three distinct keys have been set, not in ascending order.
C3_Witness ==
    /\ Len(trace) = 3
    /\ IsDistinct(trace)
    /\ trace[1] > trace[2]
    /\ call.op = "set"

\* C4: set(k, v2) on a key that is present leaves keys() as it was, leaves
\* the value of every other key as it was, and makes get(k) return v2.
C4_OverwriteInPlace ==
    (call.op = "set" /\ TSMap_has(pre, call.key)) =>
        /\ TSMap_keys(t) = TSMap_keys(pre)
        /\ \A k \in Keys \ {call.key} : TSMap_get(t, k) = TSMap_get(pre, k)
        /\ TSMap_get(t, call.key) = call.value

\* The middle one of three keys has been given another value.
C4_Witness ==
    /\ call.op = "set"
    /\ Len(pre._keys) = 3
    /\ indexOf(pre._keys, call.key) = 1
    /\ TSMap_get(pre, call.key) # call.value

\* C5: delete(k) returns true exactly if has(k) was true before the call;
\* after a delete that returned true has(k) is false; a delete that returned
\* false leaves keys(), values() and size() as they were.
C5_DeleteHasDuality ==
    call.op = "delete" =>
        /\ (call.ret = true) <=> TSMap_has(pre, call.key)
        /\ call.ret \in {true, false}
        /\ call.ret = true => ~TSMap_has(t, call.key)
        /\ call.ret = false =>
               /\ TSMap_keys(t) = TSMap_keys(pre)
               /\ TSMap_values(t) = TSMap_values(pre)
               /\ TSMap_size(t) = TSMap_size(pre)

\* The first of three keys has been deleted.
C5_Witness ==
    /\ call.op = "delete"
    /\ call.ret = true
    /\ Len(pre._keys) = 3
    /\ indexOf(pre._keys, call.key) = 0

\* C6: after any sequence of set, sortedSet, delete, clear and filter calls
\* no two elements of the key array are equal.
C6_NoDuplicateKeys == IsDistinct(t._keys)

\* C7: after filter(pred), pred not touching the map, the map holds exactly
\* the entries pred did not answer with false, in their order, and pred has
\* been called once for every entry, in order, with its value, key and index.
C7_FilterCorrect ==
    call.op = "filter" =>
        LET kept == KeptIndices(pre._keys, call.callbackfn)
        IN /\ TSMap_keys(t) = At(pre._keys, kept)
           /\ TSMap_values(t) = At(pre._values, kept)
           /\ \A k \in Keys :
                  TSMap_has(t, k) => TSMap_get(t, k) = TSMap_get(pre, k)
           /\ call.invoked =
                  [i \in 1..Len(pre._keys) |->
                      Invocation(pre._values[i], pre._keys[i], i - 1)]

\* Of three entries the first two have been removed and the third, for which
\* the callback returned 0, has been kept.
C7_Witness ==
    /\ call.op = "filter"
    /\ Len(pre._keys) = 3
    /\ call.callbackfn[pre._keys[1]] = false
    /\ call.callbackfn[pre._keys[2]] = false
    /\ call.callbackfn[pre._keys[3]] = Num(0)
    /\ Len(t._keys) = 1

\* C8: after any sequence of sortedSet calls (keys possibly repeated) on a
\* map created empty, keys() is in strictly ascending order.
C8_KeysAscending ==
    \A i, j \in 1..Len(TSMap_keys(t)) :
        i < j => TSMap_keys(t)[i] < TSMap_keys(t)[j]

\* sortedSet has entered a new key between the first and the last of at least
\* four keys, which takes the search through a midpoint.
C8_Witness ==
    /\ call.op = "sortedSet"
    /\ Len(pre._keys) >= 4
    /\ ~TSMap_has(pre, call.key)
    /\ pre._keys[1] < call.key
    /\ call.key < pre._keys[Len(pre._keys)]
    /\ TSMap_has(t, call.key)

\* C9: after any sequence of sortedSet calls on a map created empty, size()
\* equals the number of keys keys() returns.
C9_SortedSetSize == TSMap_size(t) = Len(TSMap_keys(t))

\* What can be observed of value v in the heap (ms, as): a scalar is itself, a
\* TSMap its keys, its length and what can be observed of each of its values,
\* an array what can be observed of each of its elements.
RECURSIVE Observe(_, _, _)
Observe(v, ms, as) ==
    IF v.type = "TSMap"
    THEN [type |-> "TSMap", val |-> ms[v.val].length, keys |-> ms[v.val]._keys,
          items |-> [i \in 1..Len(ms[v.val]._values) |->
                        Observe(ms[v.val]._values[i], ms, as)]]
    ELSE IF v.type = "Array"
    THEN [type |-> "Array", val |-> Len(as[v.val]), keys |-> <<>>,
          items |-> [i \in 1..Len(as[v.val]) |-> Observe(as[v.val][i], ms, as)]]
    ELSE [type |-> v.type, val |-> v.val, keys |-> <<>>, items |-> <<>>]

\* C10: once c = x.clone(), no mutation made through c (on c, on a nested
\* TSMap c.get(k), on an element of an array c.get(k)) changes what can be
\* observed of x, and none made through x changes what can be observed of c.
C10_CloneIndependent ==
    [][(c # 0 /\ c' = c) =>
           /\ via' = "c" =>
                  Observe(Ref(x), maps', arrays') = Observe(Ref(x), maps, arrays)
           /\ via' = "x" =>
                  Observe(Ref(c), maps', arrays') = Observe(Ref(c), maps, arrays)
      ]_vars

\* C14: with sortedSet alone, a call sortedSet(k, v) leaves get(k') as it was
\* for every other key k' that was present.
C14_SortedSetNoDrift ==
    call.op = "sortedSet" =>
        \A k \in SortedKeys \ {call.key} :
            TSMap_has(pre, k) => TSMap_get(t, k) = TSMap_get(pre, k)

\* C15: with sortedSet alone, after sortedSet(k, v) returns get(k) is v,
\* whether k was absent or present (first, last or in the middle).
C15_SortedSetStores ==
    call.op = "sortedSet" => TSMap_get(t, call.key) = call.value

\* C16: with sortedSet alone, sortedSet(k, v) with k not present does not end
\* in a branch that changes nothing: afterwards has(k) is true, and there is
\* exactly one key more and exactly one value more.
C16_AbsentKeyInserted ==
    (call.op = "sortedSet" /\ ~TSMap_has(pre, call.key)) =>
        /\ TSMap_has(t, call.key)
        /\ Len(TSMap_keys(t)) = Len(TSMap_keys(pre)) + 1
        /\ Len(TSMap_values(t)) = Len(TSMap_values(pre)) + 1

\* A key that was not present has been entered by an invocation the search
\* recursed into twice.
C16_Witness ==
    /\ call.op = "sortedSet"
    /\ ~TSMap_has(pre, call.key)
    /\ Len(call.invoked) = 3
    /\ TSMap_has(t, call.key)

\* C20: sortedSet(k, v) with default start and end terminates in every
\* reachable state, sorted keys or not: every invocation it recurses into works
\* on a strictly smaller index range within the previous one, and the depth of
\* the recursion is at most the number of keys.
C20_SortedSetTerminates ==
    call.op = "sortedSet" =>
        /\ Len(call.invoked) >= 1
        /\ call.invoked[1] = Range(0, Len(pre._keys) - 1)
        /\ \A i \in 1..(Len(call.invoked) - 1) :
               /\ call.invoked[i].start <= call.invoked[i + 1].start
               /\ call.invoked[i + 1].end <= call.invoked[i].end
               /\ call.invoked[i + 1].end - call.invoked[i + 1].start
                      < call.invoked[i].end - call.invoked[i].start
        /\ Len(call.invoked) - 1 <= Len(pre._keys)

\* A sortedSet that recursed twice on a map whose keys were not sorted.
C20_Witness ==
    /\ call.op = "sortedSet"
    /\ Len(call.invoked) = 3
    /\ \E i \in 1..(Len(pre._keys) - 1) : pre._keys[i] > pre._keys[i + 1]

\* C18: for the earlier class tsMap, in a state reached by set, delete and
\* clear, filter(pred) with pred not touching the map removes every entry
\* pred answers false for, keeps the others in their order, and calls pred
\* for every entry present when filter was called.
C18_OldFilterCorrect ==
    oldCall.op = "filter" =>
        LET kept == KeptIndices(oldPre._keys, oldCall.callbackfn)
        IN /\ tsMap_keys(old) = At(oldPre._keys, kept)
           /\ tsMap_values(old) = At(oldPre._values, kept)
           /\ tsMap_entries(old) = At(oldPre._items, kept)
           /\ Len(oldCall.invoked) = Len(oldPre._keys)
           /\ \A i \in 1..Len(oldPre._keys) :
                  /\ oldCall.invoked[i].key = oldPre._keys[i]
                  /\ oldCall.invoked[i].value = oldPre._values[i]

\* C19: after the same sequence of set, delete and clear calls on a tsMap and
\* on a TSMap, both created empty, keys(), values(), entries(), size(), has(k)
\* and get(k) agree, every delete has returned the same boolean in both, and
\* the tsMap's _items, _keys and _values are aligned index by index.
C19_ClassesEquivalent ==
    /\ tsMap_keys(old) = TSMap_keys(t)
    /\ tsMap_values(old) = TSMap_values(t)
    /\ tsMap_entries(old) = TSMap_entries(t)
    /\ tsMap_size(old) = TSMap_size(t)
    /\ \A k \in Keys :
           /\ tsMap_has(old, k) = TSMap_has(t, k)
           /\ tsMap_get(old, k) = TSMap_get(t, k)
    /\ oldCall.op = call.op
    /\ call.op = "delete" => oldCall.ret = call.ret
    /\ Len(old._keys) = Len(old._items)
    /\ Len(old._values) = Len(old._items)
    /\ \A i \in 1..Len(old._items) :
           old._items[i] = <<old._keys[i], old._values[i]>>

\* Both classes have overwritten the value of the first of two entries.
C19_Witness ==
    /\ call.op = "set"
    /\ oldCall.op = "set"
    /\ Len(pre._keys) = 2
    /\ pre._keys[1] = call.key
    /\ pre._values[1] # call.value
    /\ tsMap_get(old, call.key) = call.value
    /\ TSMap_get(t, call.key) = call.value

\* What keys(), values() and size() return for the map at address a.
Listing(ms, a) == <<TSMap_keys(ms[a]), TSMap_values(ms[a]), TSMap_size(ms[a])>>

\* C17: for x reached by set, delete and clear, c = x.clone() has the keys,
\* values and size x has at the call, and afterwards no set, delete, clear or
\* filter on c changes keys(), values() or size() of x, nor one on x those of c.
C17_CloneIndependentFlat ==
    [][/\ (c = 0 /\ c' # 0) =>
              /\ Listing(maps', c') = Listing(maps, x)
              /\ Listing(maps', x) = Listing(maps, x)
       /\ (c # 0 /\ c' = c) =>
              /\ via' = "c" => Listing(maps', x) = Listing(maps, x)
              /\ via' = "x" => Listing(maps', c) = Listing(maps, c)]_vars

\* A clone of a map of two entries has been changed through its own handle
\* and no longer lists what x lists.
C17_Witness ==
    /\ c # 0
    /\ via = "c"
    /\ Len(maps[x]._keys) = 2
    /\ Listing(maps, c) # Listing(maps, x)

\* The elements of a sequence.
Elements(seq) == {seq[i] : i \in 1..Len(seq)}

\* The keys ks with those that are array index names first, ascending, and
\* the others after them in their order.
IndexFirst(ks) ==
    SelectSeq(IndexNames, LAMBDA n : n \in Elements(ks))
        \o SelectSeq(ks, LAMBDA k : ArrayIndex(k) = -1)

\* The value b equals the value a: the same scalar, or maps with the same
\* keys whose values are equal in this sense.
RECURSIVE EqualValue(_, _)
EqualValue(b, a) ==
    IF a.type = "instance"
    THEN /\ b.type = "instance"
         /\ Elements(TSMap_keys(b.val)) = Elements(TSMap_keys(a.val))
         /\ Len(TSMap_keys(b.val)) = Len(TSMap_keys(a.val))
         /\ \A k \in Elements(TSMap_keys(a.val)) :
                EqualValue(TSMap_get(b.val, k), TSMap_get(a.val, k))
    ELSE b = a

\* The value b is the value a with, at every level, the keys that are array
\* index names moved to the front in ascending order.
RECURSIVE IndexFirstValue(_, _)
IndexFirstValue(b, a) ==
    IF a.type = "instance"
    THEN /\ b.type = "instance"
         /\ TSMap_keys(b.val) = IndexFirst(TSMap_keys(a.val))
         /\ Len(TSMap_values(b.val)) = Len(TSMap_keys(b.val))
         /\ TSMap_size(b.val) = Len(TSMap_keys(b.val))
         /\ \A k \in Elements(TSMap_keys(a.val)) :
                IndexFirstValue(TSMap_get(b.val, k), TSMap_get(a.val, k))
    ELSE b = a

RECURSIVE StoredAs(_, _)
StoredAs(s, v) ==
    IF v.type = "array"
    THEN /\ s.type = "array"
         /\ Len(s.val) = Len(v.val)
         /\ \A i \in 1..Len(v.val) : StoredAs(s.val[i], v.val[i])
    ELSE IF v.type = "object" THEN s.type = "instance"
    ELSE s = v

\* C12: fromJSON(obj, true) stores an array property as a sequence of the
\* same length converted element by element, an object property as a nested
\* TSMap and a scalar property unchanged.
C12_FromJSONConverts ==
    (io.op = "fromJSON" /\ io.convertObjs) =>
        \A i \in 1..Len(Object_keys(io.jsonObject)) :
            StoredAs(TSMap_get(io.out, Object_keys(io.jsonObject)[i]),
                     propertyAccess(io.jsonObject, Object_keys(io.jsonObject)[i]))

\* C13: deepGet(path) does not throw; it returns null for the empty path and
\* as soon as a path element looks up nothing or null (the top-level key
\* included), and otherwise the value reached by looking the elements up one
\* after the other, by get in a TSMap and by property access elsewhere.
C13_DeepGetSafe ==
    io.op = "deepGet" =>
        LET n == Len(io.path)
            reached[i \in 0..n] ==
                IF i = 0 THEN Inst(io.this)
                ELSE IF Nullish(reached[i - 1]) THEN undefined
                ELSE IF reached[i - 1].type = "instance"
                     THEN TSMap_get(reached[i - 1].val, io.path[i])
                     ELSE propertyAccess(reached[i - 1], io.path[i])
        IN /\ io.out # TypeError
           /\ n = 0 => io.out = null
           /\ (\E i \in 1..n : Nullish(reached[i])) => io.out = null
           /\ (n > 0 /\ \A i \in 1..n : ~Nullish(reached[i]))
                  => io.out = reached[n]

\* A path of three elements has gone through a nested TSMap and a plain
\* object to a number.
C13_Witness ==
    /\ io.op = "deepGet"
    /\ Len(io.path) = 3
    /\ TSMap_get(io.this, io.path[1]).type = "instance"
    /\ TSMap_get(TSMap_get(io.this, io.path[1]).val, io.path[2]).type = "object"
    /\ io.out.type = "number"

====
